---- MODULE Spec2Model ----
(***************************************************************************)
(* A model of abouttt::Array<T> (src/Array.h): a resizable contiguous      *)
(* sequence that owns one raw heap buffer.  The heap is modelled slot by   *)
(* slot: every slot of an allocated buffer records whether it holds a      *)
(* constructed object (live) and the value stored in it.  The element type *)
(* is a small value type: a move leaves the value in the source, as it     *)
(* does for int.                                                           *)
(***************************************************************************)
EXTENDS Integers, Sequences, FiniteSets, TLC

(* ----------------------------- bounds --------------------------------- *)
\* the largest element count the model lets a container reach
MaxCount == 3
\* the largest capacity passed to Array(size_t) and Reserve
MaxCap == 3
\* the largest length of an inserted literal list / slice
MaxLen == 2
\* the largest element count in the scenario that studies growth
MaxGrow == 6
\* the number of elements added one at a time to an empty container
MaxFill == 9
\* the largest number of elements two compared containers hold together
MaxCmp == 5
\* the largest element count of a container that is inserted into itself
MaxSelf == 4

Values == {1, 2}
\* the element values of the containers that are compared
Ordered == {1, 2, 3}
NoVal == 0
Containers == {"a", "b"}
\* the temporary of the assignment operators, and a local array of the caller's
Temp == "tmp"
Local == "loc"
Objects == Containers \cup {Temp, Local}
NumBufs == Cardinality(Containers) + 1
BufIds == 1..NumBufs
nullptr == 0
\* base of a pointer into the caller's own array (a literal list or a slice)
Ext == -1

VARIABLES arr, heap, last, pre, log
vars == <<arr, heap, last, pre, log>>

(* ------------------------- slots and pointers -------------------------- *)
DeadSlot == [live |-> FALSE, val |-> NoVal]
FreeBuf == [alloc |-> FALSE, slots |-> << >>]
NoObject == [alive |-> FALSE, mData |-> nullptr, mCount |-> 0, mCapacity |-> 0]

Ptr(b, k) == [b |-> b, k |-> k]
Plus(p, n) == [p EXCEPT !.k = @ + n]

Flag(M, e) == [M EXCEPT !.err = @ \cup {e}]
Ok(M) == M.exc = "none"

Valid(M, p) ==
    /\ p.b \in BufIds
    /\ M.heap[p.b].alloc
    /\ p.k >= 0
    /\ p.k < Len(M.heap[p.b].slots)

AccessErr(M, p) ==
    IF p.b \in BufIds /\ ~M.heap[p.b].alloc THEN "use_released"
    ELSE IF p.b = nullptr THEN "null_deref"
    ELSE "out_of_bounds"

SlotAt(M, p) == M.heap[p.b].slots[p.k + 1]
SetSlot(M, p, s) == [M EXCEPT !.heap[p.b].slots[p.k + 1] = s]

\* the value an lvalue read of *p yields; an invalid read yields M.g
LoadVal(M, p) ==
    IF p.b = Ext
    THEN IF p.k + 1 \in 1..Len(M.ext) THEN M.ext[p.k + 1] ELSE M.g
    ELSE IF Valid(M, p) /\ SlotAt(M, p).val # NoVal THEN SlotAt(M, p).val
    ELSE M.g

\* the bookkeeping of that read
LoadChk(M, p) ==
    IF p.b = Ext
    THEN IF p.k + 1 \in 1..Len(M.ext) THEN M ELSE Flag(M, "out_of_bounds")
    ELSE IF ~Valid(M, p) THEN Flag(M, AccessErr(M, p))
    ELSE IF ~SlotAt(M, p).live THEN Flag(M, "read_dead")
    ELSE M

construct_at(M, p, v) ==
    IF ~Valid(M, p) THEN Flag(M, AccessErr(M, p))
    ELSE SetSlot(IF SlotAt(M, p).live THEN Flag(M, "construct_live") ELSE M,
                 p, [live |-> TRUE, val |-> v])

\* *p = v
assign_at(M, p, v) ==
    IF ~Valid(M, p) THEN Flag(M, AccessErr(M, p))
    ELSE SetSlot(IF SlotAt(M, p).live THEN M ELSE Flag(M, "assign_dead"),
                 p, [SlotAt(M, p) EXCEPT !.val = v])

destroy_at(M, p) ==
    IF ~Valid(M, p) THEN Flag(M, AccessErr(M, p))
    ELSE SetSlot(IF SlotAt(M, p).live THEN M ELSE Flag(M, "destroy_dead"),
                 p, DeadSlot)

(* --------------------------- std algorithms ---------------------------- *)
RECURSIVE uninitialized_copy_n(_, _, _, _)
uninitialized_copy_n(M, src, n, dst) ==
    IF n <= 0 THEN M
    ELSE uninitialized_copy_n(construct_at(LoadChk(M, src), dst, LoadVal(M, src)),
                              Plus(src, 1), n - 1, Plus(dst, 1))

uninitialized_move_n(M, src, n, dst) == uninitialized_copy_n(M, src, n, dst)

RECURSIVE uninitialized_fill_n(_, _, _, _)
uninitialized_fill_n(M, dst, n, v) ==
    IF n <= 0 THEN M
    ELSE uninitialized_fill_n(construct_at(M, dst, v), Plus(dst, 1), n - 1, v)

RECURSIVE destroy_n(_, _, _)
destroy_n(M, p, n) ==
    IF n <= 0 THEN M
    ELSE destroy_n(destroy_at(M, p), Plus(p, 1), n - 1)

\* while (first != last) *--d_last = std::move(*--last)
RECURSIVE move_backward_loop(_, _, _, _)
move_backward_loop(M, first, lst, d_last) ==
    IF lst.k = first.k THEN M
    ELSE LET l == Plus(lst, -1)
             d == Plus(d_last, -1)
         IN move_backward_loop(assign_at(LoadChk(M, l), d, LoadVal(M, l)), first, l, d)

\* [first, last) with last before first is no range: undefined behaviour
move_backward(M, first, lst, d_last) ==
    IF lst.k < first.k THEN Flag(M, "bad_range")
    ELSE move_backward_loop(M, first, lst, d_last)

\* std::move(first, last, d_first): for (; first != last; ++first) *d_first++ = move(*first)
RECURSIVE move_forward(_, _, _, _)
move_forward(M, first, lst, d_first) ==
    IF first.k >= lst.k THEN M
    ELSE move_forward(assign_at(LoadChk(M, first), d_first, LoadVal(M, first)),
                      Plus(first, 1), lst, Plus(d_first, 1))

\* std::remove_if: the new end is left in ret
RECURSIVE remove_if_loop(_, _, _, _, _)
remove_if_loop(M, i, lst, res, P) ==
    IF i.k >= lst.k THEN [M EXCEPT !.ret = res.k]
    ELSE IF LoadVal(M, i) \in P
         THEN remove_if_loop(LoadChk(M, i), Plus(i, 1), lst, res, P)
         ELSE remove_if_loop(assign_at(LoadChk(M, i), res, LoadVal(M, i)),
                             Plus(i, 1), lst, Plus(res, 1), P)

RECURSIVE find_if(_, _, _, _)
find_if(M, first, lst, P) ==
    IF first.k >= lst.k THEN lst.k
    ELSE IF LoadVal(M, first) \in P THEN first.k
    ELSE find_if(M, Plus(first, 1), lst, P)

remove_if(M, first, lst, P) ==
    LET f == find_if(M, first, lst, P)
    IN IF f = lst.k THEN [M EXCEPT !.ret = lst.k]
       ELSE remove_if_loop(M, Ptr(first.b, f + 1), lst, Ptr(first.b, f), P)

\* std::lexicographical_compare_three_way for a totally ordered element type:
\* -1 for less, 0 for equal, 1 for greater
RECURSIVE lexicographical_compare_three_way(_, _, _, _, _)
lexicographical_compare_three_way(M, first1, last1, first2, last2) ==
    IF first1.k = last1.k THEN (IF first2.k = last2.k THEN 0 ELSE -1)
    ELSE IF first2.k = last2.k THEN 1
    ELSE IF LoadVal(M, first1) < LoadVal(M, first2) THEN -1
    ELSE IF LoadVal(M, first1) > LoadVal(M, first2) THEN 1
    ELSE lexicographical_compare_three_way(M, Plus(first1, 1), last1,
                                           Plus(first2, 1), last2)

\* std::equal(first1, last1, first2)
RECURSIVE equal(_, _, _, _)
equal(M, first1, last1, first2) ==
    IF first1.k = last1.k THEN TRUE
    ELSE IF LoadVal(M, first1) # LoadVal(M, first2) THEN FALSE
    ELSE equal(M, Plus(first1, 1), last1, Plus(first2, 1))

(* ------------------------------ the heap ------------------------------- *)
FreeIds(M) == {b \in BufIds : ~M.heap[b].alloc}
MinOf(S) == CHOOSE x \in S : \A y \in S : x <= y

\* ::operator new(sizeof(T) * n): throws std::bad_alloc when the heap is exhausted
operator_new(M, n) ==
    IF ~M.allocOk \/ FreeIds(M) = {} THEN [M EXCEPT !.exc = "alloc"]
    ELSE LET b == MinOf(FreeIds(M))
         IN [M EXCEPT !.heap[b] = [alloc |-> TRUE, slots |-> [k \in 1..n |-> DeadSlot]],
                      !.nalloc = @ + 1,
                      !.ret = b]

\* ::operator delete(p); storage released while an object in it was never
\* destroyed is put on record
operator_delete(M, b) ==
    IF b = nullptr THEN M
    ELSE IF ~M.heap[b].alloc THEN Flag(M, "double_free")
    ELSE [(IF \E k \in 1..Len(M.heap[b].slots) : M.heap[b].slots[k].live
           THEN Flag(M, "release_live") ELSE M)
             EXCEPT !.heap[b] = FreeBuf, !.nfree = @ + 1]

(* --------------------- Array: private member functions ----------------- *)
\* the values in slots [0, mCount) of container c on the machine M
ElemsOfM(M, c) ==
    [k \in 1..M.arr[c].mCount |->
        IF M.arr[c].mData \in BufIds /\ k <= Len(M.heap[M.arr[c].mData].slots)
        THEN M.heap[M.arr[c].mData].slots[k].val
        ELSE NoVal]

Data(M, c, k) == Ptr(M.arr[c].mData, k)

\* cleanup that forgets to reset mCapacity
cleanup_KeepCapacity(M, c) ==
    IF M.arr[c].mData # nullptr
    THEN LET M1 == destroy_n(M, Data(M, c, 0), M.arr[c].mCount)
             M2 == operator_delete(M1, M.arr[c].mData)
         IN [M2 EXCEPT !.arr[c].mData = nullptr,
                       !.arr[c].mCount = 0]
    ELSE M

\* Array::cleanup
cleanup(M, c) ==
    IF M.arr[c].mData # nullptr
    THEN LET M1 == destroy_n(M, Data(M, c, 0), M.arr[c].mCount)
             M2 == operator_delete(M1, M.arr[c].mData)
         IN [M2 EXCEPT !.arr[c].mData = nullptr,
                       !.arr[c].mCount = 0,
                       !.arr[c].mCapacity = 0]
    ELSE M

\* reallocate that releases the old buffer before it allocates the new one
reallocate_FreeFirst(M, c, newCapacity) ==
    IF newCapacity = M.arr[c].mCapacity THEN M
    ELSE IF newCapacity = 0 THEN cleanup(M, c)
    ELSE LET n == M.arr[c].mCount
             newCount == IF n < newCapacity THEN n ELSE newCapacity
             old == ElemsOfM(M, c)
             M0 == operator_delete(destroy_n(M, Data(M, c, 0), n), M.arr[c].mData)
             M1 == operator_new(M0, newCapacity)
             M2 == uninitialized_copy_n([M1 EXCEPT !.ext = old], Ptr(Ext, 0), newCount,
                                        Ptr(M1.ret, 0))
         IN IF ~Ok(M1) THEN M1
            ELSE [M2 EXCEPT !.ext = M.ext,
                            !.arr[c].mData = M1.ret,
                            !.arr[c].mCount = newCount,
                            !.arr[c].mCapacity = newCapacity]

\* Array::reallocate
reallocate(M, c, newCapacity) ==
    IF newCapacity = M.arr[c].mCapacity THEN M
    ELSE IF newCapacity = 0 THEN cleanup(M, c)
    ELSE LET M1 == operator_new(M, newCapacity)
             newData == M1.ret
             newCount == IF M.arr[c].mCount < newCapacity THEN M.arr[c].mCount
                         ELSE newCapacity
             M2 == IF M1.arr[c].mData # nullptr
                   THEN operator_delete(
                            destroy_n(
                                uninitialized_move_n(M1, Data(M1, c, 0), newCount,
                                                     Ptr(newData, 0)),
                                Data(M1, c, 0), M1.arr[c].mCount),
                            M1.arr[c].mData)
                   ELSE M1
         IN IF ~Ok(M1) THEN M1
            ELSE [M2 EXCEPT !.arr[c].mData = newData,
                            !.arr[c].mCount = newCount,
                            !.arr[c].mCapacity = newCapacity]

\* the growth step of Array::ensureCapacity: mCapacity + (mCapacity >> 1)
GrowBy(cap) == cap + (cap \div 2)
Max(x, y) == IF x >= y THEN x ELSE y
BaseCapacity == 8

\* ensureCapacity that doubles
ensureCapacity_Double(M, c, minCapacity) ==
    IF minCapacity > M.arr[c].mCapacity
    THEN LET grow == 2 * M.arr[c].mCapacity
             newCapacity == Max(minCapacity,
                                IF M.arr[c].mCapacity = 0 THEN BaseCapacity ELSE grow)
         IN reallocate(M, c, newCapacity)
    ELSE M

\* Array::ensureCapacity
ensureCapacity(M, c, minCapacity) ==
    IF minCapacity > M.arr[c].mCapacity
    THEN LET grow == GrowBy(M.arr[c].mCapacity)
             newCapacity == Max(minCapacity,
                                IF M.arr[c].mCapacity = 0 THEN BaseCapacity ELSE grow)
         IN reallocate(M, c, newCapacity)
    ELSE M

\* checkRange with > for >=
checkRange_OffByOne(M, c, index, bAllowEnd) ==
    IF index > M.arr[c].mCount + (IF bAllowEnd THEN 1 ELSE 0)
    THEN [M EXCEPT !.exc = "range"]
    ELSE M

\* Array::checkRange
checkRange(M, c, index, bAllowEnd) ==
    IF index >= M.arr[c].mCount + (IF bAllowEnd THEN 1 ELSE 0)
    THEN [M EXCEPT !.exc = "range"]
    ELSE M

\* Array::insertImpl; ptr is the source pointer, count the number of elements
insertImpl(M, c, index, ptr, count) ==
    LET M1 == checkRange(M, c, index, TRUE)
        M2 == ensureCapacity(M1, c, M1.arr[c].mCount + count)
        n == M2.arr[c].mCount
        M3 == IF index < n
              THEN move_backward(
                       uninitialized_move_n(M2, Data(M2, c, n - count), count,
                                            Data(M2, c, n)),
                       Data(M2, c, index), Data(M2, c, n - count), Data(M2, c, n))
              ELSE M2
        M4 == uninitialized_copy_n(M3, ptr, count, Data(M3, c, index))
    IN IF ~Ok(M1) THEN M1
       ELSE IF count = 0 THEN [M1 EXCEPT !.ret = index]
       ELSE IF ~Ok(M2) THEN M2
       ELSE [M4 EXCEPT !.arr[c].mCount = @ + count, !.ret = index]

(* ------------------- Array: constructors, destructor ------------------- *)
\* Array(size_t capacity)
Array_capacity(M, c, capacity) ==
    LET M1 == IF capacity > 0 THEN operator_new(M, capacity)
              ELSE [M EXCEPT !.ret = nullptr]
    IN IF ~Ok(M1) THEN M1
       ELSE [M1 EXCEPT !.arr[c] = [alive |-> TRUE, mData |-> M1.ret,
                                   mCount |-> 0, mCapacity |-> capacity]]

\* Array()
Array_default(M, c) == Array_capacity(M, c, 0)

\* Array(std::initializer_list<T>): the list is the caller's array M.ext
Array_ilist(M, c) ==
    LET M1 == Array_capacity(M, c, Len(M.ext))
        M2 == uninitialized_copy_n(M1, Ptr(Ext, 0), Len(M.ext), Data(M1, c, 0))
    IN IF ~Ok(M1) THEN M1
       ELSE [M2 EXCEPT !.arr[c].mCount = Len(M.ext)]

\* Array(const Array& other)
Array_copy(M, c, other) ==
    LET M1 == Array_capacity(M, c, M.arr[other].mCount)
        M2 == uninitialized_copy_n(M1, Data(M1, other, 0), M1.arr[other].mCount,
                                   Data(M1, c, 0))
    IN IF ~Ok(M1) THEN M1
       ELSE [M2 EXCEPT !.arr[c].mCount = M1.arr[other].mCount]

\* Array(Array&& other)
Array_move(M, c, other) ==
    [M EXCEPT !.arr[c] = [alive |-> TRUE, mData |-> M.arr[other].mData,
                          mCount |-> M.arr[other].mCount,
                          mCapacity |-> M.arr[other].mCapacity],
              !.arr[other].mData = nullptr,
              !.arr[other].mCount = 0,
              !.arr[other].mCapacity = 0]

\* ~Array(): the object is gone afterwards
Array_dtor(M, c) == [cleanup(M, c) EXCEPT !.arr[c] = NoObject]

(* ---------------------- Array: public operations ----------------------- *)
\* Array::Swap
Swap(M, c, other) ==
    [M EXCEPT !.arr[c].mData = M.arr[other].mData,
              !.arr[other].mData = M.arr[c].mData,
              !.arr[c].mCount = M.arr[other].mCount,
              !.arr[other].mCount = M.arr[c].mCount,
              !.arr[c].mCapacity = M.arr[other].mCapacity,
              !.arr[other].mCapacity = M.arr[c].mCapacity]

\* operator=(const Array& other); temp lives in the object Temp
AssignCopy(M, c, other) ==
    IF c # other
    THEN LET M1 == Array_copy(M, Temp, other)
         IN IF ~Ok(M1) THEN M1 ELSE Array_dtor(Swap(M1, c, Temp), Temp)
    ELSE M

\* move assignment that does not release the buffer it held
AssignMove_NoCleanup(M, c, other) ==
    IF c # other
    THEN [M EXCEPT !.arr[c].mData = M.arr[other].mData,
                   !.arr[c].mCount = M.arr[other].mCount,
                   !.arr[c].mCapacity = M.arr[other].mCapacity,
                   !.arr[other].mData = nullptr,
                   !.arr[other].mCount = 0,
                   !.arr[other].mCapacity = 0]
    ELSE M

\* move assignment written as a swap
AssignMove_BySwap(M, c, other) == Swap(M, c, other)

\* operator=(Array&& other)
AssignMove(M, c, other) ==
    IF c # other
    THEN LET M1 == cleanup(M, c)
         IN [M1 EXCEPT !.arr[c].mData = M1.arr[other].mData,
                       !.arr[c].mCount = M1.arr[other].mCount,
                       !.arr[c].mCapacity = M1.arr[other].mCapacity,
                       !.arr[other].mData = nullptr,
                       !.arr[other].mCount = 0,
                       !.arr[other].mCapacity = 0]
    ELSE M

\* operator=(std::initializer_list<T>)
AssignList(M, c) ==
    LET M1 == Array_ilist(M, Temp)
    IN IF ~Ok(M1) THEN M1 ELSE Array_dtor(Swap(M1, c, Temp), Temp)

\* operator[]: the value read is left in ret
Index(M, c, index) ==
    LET M1 == checkRange(M, c, index, FALSE)
    IN IF ~Ok(M1) THEN M1
       ELSE [LoadChk(M1, Data(M1, c, index)) EXCEPT !.ret = LoadVal(M1, Data(M1, c, index))]

\* a comparison that puts the shorter container first
Compare_ShorterFirst(M, c, other) ==
    IF M.arr[c].mCount < M.arr[other].mCount THEN -1
    ELSE IF M.arr[c].mCount > M.arr[other].mCount THEN 1
    ELSE lexicographical_compare_three_way(
             M, Data(M, c, 0), Data(M, c, M.arr[c].mCount),
             Data(M, other, 0), Data(M, other, M.arr[other].mCount))

\* operator<=>
Compare(M, c, other) ==
    lexicographical_compare_three_way(
        M, Data(M, c, 0), Data(M, c, M.arr[c].mCount),
        Data(M, other, 0), Data(M, other, M.arr[other].mCount))

\* operator==
Equal(M, c, other) ==
    /\ M.arr[c].mCount = M.arr[other].mCount
    /\ equal(M, Data(M, c, 0), Data(M, c, M.arr[c].mCount), Data(M, other, 0))

\* EmplaceAt that moves the last element up but not the ones before it
EmplaceAt_NoShift(M, c, index, vp) ==
    LET M1 == checkRange(M, c, index, TRUE)
        M2 == ensureCapacity(M1, c, M1.arr[c].mCount + 1)
        n == M2.arr[c].mCount
        M3 == IF index < n
              THEN uninitialized_move_n(M2, Data(M2, c, n - 1), 1, Data(M2, c, n))
              ELSE M2
        M4 == construct_at(LoadChk(M3, vp), Data(M3, c, index), LoadVal(M3, vp))
    IN IF ~Ok(M1) THEN M1
       ELSE IF ~Ok(M2) THEN M2
       ELSE [M4 EXCEPT !.arr[c].mCount = @ + 1, !.ret = index]

\* Array::EmplaceAt with one argument, a reference vp to the value
EmplaceAt(M, c, index, vp) ==
    LET M1 == checkRange(M, c, index, TRUE)
        M2 == ensureCapacity(M1, c, M1.arr[c].mCount + 1)
        n == M2.arr[c].mCount
        M3 == IF index < n
              THEN move_backward(
                       uninitialized_move_n(M2, Data(M2, c, n - 1), 1, Data(M2, c, n)),
                       Data(M2, c, index), Data(M2, c, n - 1), Data(M2, c, n))
              ELSE M2
        M4 == construct_at(LoadChk(M3, vp), Data(M3, c, index), LoadVal(M3, vp))
    IN IF ~Ok(M1) THEN M1
       ELSE IF ~Ok(M2) THEN M2
       ELSE [M4 EXCEPT !.arr[c].mCount = @ + 1, !.ret = index]

\* Emplace that puts the new element in front
Emplace_AtFront(M, c, vp) == EmplaceAt(M, c, 0, vp)

\* Array::Emplace
Emplace(M, c, vp) == EmplaceAt(M, c, M.arr[c].mCount, vp)

\* Array::Add
Add(M, c, vp) == Emplace(M, c, vp)

\* Insert(size_t, const T&) and Insert(size_t, T&&)
Insert(M, c, index, vp) == EmplaceAt(M, c, index, vp)

\* Insert(size_t, const Array& source)
InsertArray(M, c, index, source) ==
    insertImpl(M, c, index, Data(M, source, 0), M.arr[source].mCount)

\* Clear that gives the buffer back
Clear_Release(M, c) == cleanup(M, c)

\* Array::Clear
Clear(M, c) ==
    [destroy_n(M, Data(M, c, 0), M.arr[c].mCount) EXCEPT !.arr[c].mCount = 0]

\* Insert(size_t, Array&& source)
InsertDrain(M, c, index, source) ==
    LET M1 == insertImpl(M, c, index, Data(M, source, 0), M.arr[source].mCount)
    IN IF ~Ok(M1) THEN M1 ELSE [Clear(M1, source) EXCEPT !.ret = M1.ret]

\* Insert(size_t, std::initializer_list<T>) and Insert(size_t, const T*, size_t):
\* the source is the caller's array M.ext
InsertList(M, c, index) == insertImpl(M, c, index, Ptr(Ext, 0), Len(M.ext))

\* Append(const Array&), Append(Array&&), Append(ilist) and Append(ptr, count)
AppendArray(M, c, source) == InsertArray(M, c, M.arr[c].mCount, source)
AppendDrain(M, c, source) == InsertDrain(M, c, M.arr[c].mCount, source)
AppendList(M, c) == InsertList(M, c, M.arr[c].mCount)

\* RemoveAt that shifts from index + 2 on
RemoveAt_ShiftLate(M, c, index) ==
    LET M1 == checkRange(M, c, index, FALSE)
        n == M1.arr[c].mCount
        M2 == destroy_at(M1, Data(M1, c, index))
        M3 == IF index < n - 1
              THEN move_forward(M2, Data(M2, c, index + 2), Data(M2, c, n),
                                Data(M2, c, index))
              ELSE M2
    IN IF ~Ok(M1) THEN M1
       ELSE [M3 EXCEPT !.arr[c].mCount = @ - 1]

\* Array::RemoveAt
RemoveAt(M, c, index) ==
    LET M1 == checkRange(M, c, index, FALSE)
        n == M1.arr[c].mCount
        M2 == destroy_at(M1, Data(M1, c, index))
        M3 == IF index < n - 1
              THEN move_forward(M2, Data(M2, c, index + 1), Data(M2, c, n),
                                Data(M2, c, index))
              ELSE M2
    IN IF ~Ok(M1) THEN M1
       ELSE [M3 EXCEPT !.arr[c].mCount = @ - 1]

\* std::numeric_limits<size_t>::max(), with the model's largest integer for it
INDEX_NONE == 2147483647

\* Find that reports the last match
Find_FromBack(M, c, value) ==
    LET n == M.arr[c].mCount
        hits == {k \in 0..(n - 1) : LoadVal(M, Data(M, c, k)) = value}
    IN IF hits = {} THEN INDEX_NONE ELSE CHOOSE k \in hits : \A j \in hits : j <= k

\* Array::Find: the index of the first element equal to value, or INDEX_NONE
Find(M, c, value) ==
    LET n == M.arr[c].mCount
        it == find_if(M, Data(M, c, 0), Data(M, c, n), {value})
    IN IF it # n THEN it ELSE INDEX_NONE

\* for (size_t i = mCount; i-- > 0; ) if (mData[i] == value) return i;
RECURSIVE FindLast_loop(_, _, _, _)
FindLast_loop(M, c, i, value) ==
    IF i = 0 THEN INDEX_NONE
    ELSE IF LoadVal(M, Data(M, c, i - 1)) = value THEN i - 1
    ELSE FindLast_loop(M, c, i - 1, value)

\* Array::FindLast
FindLast(M, c, value) == FindLast_loop(M, c, M.arr[c].mCount, value)

\* Array::Remove: ret is 1 when an element was removed
Remove(M, c, value) ==
    LET index == Find(M, c, value)
    IN IF index # INDEX_NONE
       THEN [RemoveAt(M, c, index) EXCEPT !.ret = 1]
       ELSE [M EXCEPT !.ret = 0]

\* RemoveAll that leaves mCount as it was
RemoveAll_KeepCount(M, c, P) ==
    LET n == M.arr[c].mCount
        M1 == remove_if(M, Data(M, c, 0), Data(M, c, n), P)
        newEnd == M1.ret
        M2 == destroy_n(M1, Data(M1, c, newEnd), n - newEnd)
    IN IF newEnd = n THEN [M1 EXCEPT !.ret = 0]
       ELSE [M2 EXCEPT !.ret = n - newEnd]

\* Array::RemoveAll with the predicate "the element is in P"
RemoveAll(M, c, P) ==
    LET n == M.arr[c].mCount
        M1 == remove_if(M, Data(M, c, 0), Data(M, c, n), P)
        newEnd == M1.ret
        removedCount == n - newEnd
        M2 == destroy_n(M1, Data(M1, c, newEnd), n - newEnd)
    IN IF newEnd = n THEN [M1 EXCEPT !.ret = 0]
       ELSE [M2 EXCEPT !.arr[c].mCount = @ - removedCount, !.ret = removedCount]

\* Array::Reserve
Reserve(M, c, newCapacity) ==
    IF newCapacity > M.arr[c].mCapacity THEN reallocate(M, c, newCapacity) ELSE M

\* Array::Resize(newCount, value)
Resize(M, c, newCount, value) ==
    LET n == M.arr[c].mCount
        M1 == ensureCapacity(M, c, newCount)
    IN IF newCount > n
       THEN IF ~Ok(M1) THEN M1
            ELSE [uninitialized_fill_n(M1, Data(M1, c, M1.arr[c].mCount),
                                       newCount - M1.arr[c].mCount, value)
                    EXCEPT !.arr[c].mCount = newCount]
       ELSE IF newCount < n
       THEN [destroy_n(M, Data(M, c, newCount), n - newCount)
               EXCEPT !.arr[c].mCount = newCount]
       ELSE [M EXCEPT !.arr[c].mCount = newCount]

\* Shrink that gives back half of the capacity at most
Shrink_Half(M, c) ==
    IF M.arr[c].mCapacity > M.arr[c].mCount
    THEN reallocate(M, c, Max(M.arr[c].mCount, M.arr[c].mCapacity \div 2))
    ELSE M

\* Array::Shrink
Shrink(M, c) ==
    IF M.arr[c].mCapacity > M.arr[c].mCount
    THEN reallocate(M, c, M.arr[c].mCount)
    ELSE M

(* ------------------------- observing the state ------------------------- *)
\* the element sequence of container c: the values of slots [0, mCount)
ElemsOf(A, H, c) ==
    [k \in 1..A[c].mCount |->
        IF A[c].mData \in BufIds /\ k <= Len(H[A[c].mData].slots)
        THEN H[A[c].mData].slots[k].val
        ELSE NoVal]

Elems(c) == ElemsOf(arr, heap, c)

\* what a caller can see of container c, plus its buffer pointer
ViewOf(A, H, c) ==
    [alive |-> A[c].alive, mData |-> A[c].mData, mCount |-> A[c].mCount,
     mCapacity |-> A[c].mCapacity, elems |-> ElemsOf(A, H, c)]

View(c) == ViewOf(arr, heap, c)

\* the slots of c's buffer that hold a constructed object
LiveSlots(c) ==
    IF arr[c].mData \in BufIds
    THEN {k \in 0..(Len(heap[arr[c].mData].slots) - 1) :
             heap[arr[c].mData].slots[k + 1].live}
    ELSE {}

Lists(V) == UNION {[1..n -> V] : n \in 0..MaxLen}
Alive(S) == {c \in S : arr[c].alive}
Unborn(S) == {c \in S : ~arr[c].alive}
Total == arr["a"].mCount + arr["b"].mCount
Running == last.outcome # "crash"

(* ------------------------------ the steps ------------------------------ *)
\* the machine an operation starts on: the caller's array ext, the value g an
\* invalid read yields, and whether the heap can serve an allocation
Start(ext, g, ok) ==
    [arr |-> arr, heap |-> heap, ext |-> ext, g |-> g, allocOk |-> ok,
     exc |-> "none", err |-> {}, nalloc |-> 0, nfree |-> 0, ret |-> 0, seen |-> 0]

\* the same, with the caller's local array built from the list l beforehand
StartLocal(l, g, ok) ==
    [Array_ilist(Start(l, NoVal, TRUE), Local)
        EXCEPT !.ext = << >>, !.g = g, !.allocOk = ok, !.nalloc = 0]

\* the caller's local array goes out of scope; seen keeps its count at that time
EndLocal(M) ==
    LET M1 == Array_dtor(M, Local)
    IN [M1 EXCEPT !.seen = M.arr[Local].mCount, !.nfree = M.nfree]

Call(op, c, src, idx, ref, arg) ==
    [op |-> op, obj |-> c, src |-> src, idx |-> idx, ref |-> ref, arg |-> arg]

Unobserved == Call("step", "none", "none", 0, -1, 0)
NoPre == [c \in Containers |-> NoObject]

Outcome(M, call, how) ==
    [op |-> call.op, obj |-> call.obj, src |-> call.src, idx |-> call.idx,
     ref |-> call.ref, arg |-> call.arg, outcome |-> how, err |-> M.err,
     nalloc |-> M.nalloc, nfree |-> M.nfree, ret |-> M.ret, seen |-> M.seen]

Blank(M) == [M EXCEPT !.nalloc = 0, !.nfree = 0, !.ret = 0, !.seen = 0]

IdleRec ==
    [op |-> "step", obj |-> "none", src |-> "none", idx |-> 0, ref |-> -1,
     arg |-> 0, outcome |-> "ok", err |-> {}, nalloc |-> 0, nfree |-> 0,
     ret |-> 0, seen |-> 0]

\* the caller is between two calls: no call is on record
Idle == last = IdleRec

\* The history of container "a" in a scenario that traces it: the capacities it
\* has had, the values the Add calls that returned have added, and the number
\* of allocations its calls have made.
NoLog == [caps |-> <<0>>, adds |-> << >>, reallocs |-> 0]

Logged(M, call) ==
    [caps |-> IF M.arr["a"].mCapacity # log.caps[Len(log.caps)]
              THEN Append(log.caps, M.arr["a"].mCapacity)
              ELSE log.caps,
     adds |-> IF call.op = "Add" /\ Ok(M) THEN Append(log.adds, call.arg)
              ELSE log.adds,
     reallocs |-> log.reallocs + M.nalloc]

\* An operation that ran on M returns or throws; one that executed an invalid
\* iterator range may instead end the process.  last and pre record the call
\* and the state it started in, unless the scenario keeps the operation quiet.
Done(M, call, sc) ==
    /\ Idle
    /\ pre' = IF call.op \notin sc.quiet THEN [c \in Containers |-> View(c)] ELSE NoPre
    /\ \/ /\ arr' = M.arr
          /\ heap' = M.heap
          /\ log' = IF sc.trace THEN Logged(M, call) ELSE log
          /\ last' = IF call.op \notin sc.quiet THEN Outcome(M, call, IF Ok(M) THEN "ok" ELSE M.exc)
                     ELSE Outcome(Blank(M), Unobserved, IF Ok(M) THEN "ok" ELSE M.exc)
       \/ /\ "bad_range" \in M.err
          /\ UNCHANGED <<arr, heap, log>>
          /\ last' = IF call.op \notin sc.quiet THEN Outcome(M, call, "crash")
                     ELSE Outcome(Blank(M), Unobserved, "crash")

\* the caller goes on to its next call; the record of the last one is dropped
Resume ==
    /\ ~Idle
    /\ Running
    /\ last' = IdleRec
    /\ pre' = NoPre
    /\ UNCHANGED <<arr, heap, log>>

Init ==
    /\ arr = [c \in Objects |-> IF c = "a"
                                THEN [alive |-> TRUE, mData |-> nullptr,
                                      mCount |-> 0, mCapacity |-> 0]
                                ELSE NoObject]
    /\ heap = [b \in BufIds |-> FreeBuf]
    /\ pre = NoPre
    /\ last = IdleRec
    /\ log = NoLog

(* Actions.  The scenario sc names the containers the program has (objs),   *)
(* the values its callers pass (vals), the number of elements the model     *)
(* lets it hold (lim) and the operations whose calls are not put on record  *)
(* (quiet).                                                                 *)
CtorDefault(sc) ==
    \E c \in Unborn(sc.objs) :
        Done(Array_default(Start(<< >>, NoVal, TRUE), c),
             Call("Array()", c, "none", 0, -1, 0), sc)

CtorSized(sc) ==
    \E c \in Unborn(sc.objs), capacity \in 0..MaxCap, ok \in BOOLEAN :
        Done(Array_capacity(Start(<< >>, NoVal, ok), c, capacity),
             Call("Array(capacity)", c, "none", 0, -1, capacity), sc)

CtorList(sc) ==
    \E c \in Unborn(sc.objs), l \in Lists(sc.vals), ok \in BOOLEAN :
        /\ Total + Len(l) <= sc.lim
        /\ Done(Array_ilist(Start(l, NoVal, ok), c),
                Call("Array(ilist)", c, "none", 0, -1, l), sc)

CtorCopy(sc) ==
    \E c \in Unborn(sc.objs), o \in Alive(sc.objs), ok \in BOOLEAN :
        /\ Total + arr[o].mCount <= sc.lim
        /\ Done(Array_copy(Start(<< >>, NoVal, ok), c, o),
                Call("Array(copy)", c, o, 0, -1, 0), sc)

CtorMove(sc) ==
    \E c \in Unborn(sc.objs), o \in Alive(sc.objs) :
        Done(Array_move(Start(<< >>, NoVal, TRUE), c, o),
             Call("Array(move)", c, o, 0, -1, 0), sc)

Dtor(sc) ==
    \E c \in Alive(sc.objs) :
        Done(Array_dtor(Start(<< >>, NoVal, TRUE), c),
             Call("~Array", c, "none", 0, -1, 0), sc)

\* c = o, also with o the same object as c
OpAssignCopy(sc) ==
    \E c \in Alive(sc.objs), o \in Alive(sc.objs), ok \in BOOLEAN :
        /\ Total - arr[c].mCount + arr[o].mCount <= sc.lim
        /\ Done(AssignCopy(Start(<< >>, NoVal, ok), c, o),
                Call("operator=(copy)", c, o, 0, -1, 0), sc)

\* c = local, a local array of the caller's
OpAssignCopyLocal(sc) ==
    \E c \in Alive(sc.objs), l \in Lists(sc.vals), ok \in BOOLEAN :
        /\ Total - arr[c].mCount + Len(l) <= sc.lim
        /\ Done(EndLocal(AssignCopy(StartLocal(l, NoVal, ok), c, Local)),
                Call("operator=(copy)", c, Local, 0, -1, l), sc)

\* c = std::move(o), also with o the same object as c
OpAssignMove(sc) ==
    \E c \in Alive(sc.objs), o \in Alive(sc.objs) :
        Done(AssignMove(Start(<< >>, NoVal, TRUE), c, o),
             Call("operator=(move)", c, o, 0, -1, 0), sc)

\* c = std::move(local), a local array of the caller's
OpAssignMoveLocal(sc) ==
    \E c \in Alive(sc.objs), l \in Lists(sc.vals) :
        /\ Total - arr[c].mCount + Len(l) <= sc.lim
        /\ Done(EndLocal(AssignMove(StartLocal(l, NoVal, TRUE), c, Local)),
                Call("operator=(move)", c, Local, 0, -1, l), sc)

OpAssignList(sc) ==
    \E c \in Alive(sc.objs), l \in Lists(sc.vals), ok \in BOOLEAN :
        /\ Total - arr[c].mCount + Len(l) <= sc.lim
        /\ Done(AssignList(Start(l, NoVal, ok), c),
                Call("operator=(ilist)", c, "none", 0, -1, l), sc)

\* c <=> o, also with o the same object as c
OpCompare(sc) ==
    \E c \in Alive(sc.objs), o \in Alive(sc.objs) :
        Done([Start(<< >>, NoVal, TRUE)
                 EXCEPT !.ret = Compare(Start(<< >>, NoVal, TRUE), c, o)],
             Call("operator<=>", c, o, 0, -1, 0), sc)

\* c == o, also with o the same object as c; ret is 1 for true
OpEqual(sc) ==
    \E c \in Alive(sc.objs), o \in Alive(sc.objs) :
        Done([Start(<< >>, NoVal, TRUE)
                 EXCEPT !.ret = IF Equal(Start(<< >>, NoVal, TRUE), c, o) THEN 1 ELSE 0],
             Call("operator==", c, o, 0, -1, 0), sc)

OpIndex(sc) ==
    \E c \in Alive(sc.objs) : \E index \in 0..(arr[c].mCount + 1) :
        Done(Index(Start(<< >>, NoVal, TRUE), c, index),
             Call("operator[]", c, "none", index, -1, 0), sc)

\* Add(value) with value an object of the caller's
OpAdd(sc) ==
    \E c \in Alive(sc.objs), v \in sc.vals, ok \in BOOLEAN :
        /\ Total < sc.lim
        /\ Done(Add(Start(<<v>>, NoVal, ok), c, Ptr(Ext, 0)),
                Call("Add", c, "none", arr[c].mCount, -1, v), sc)

\* Insert(index, value) with value an object of the caller's
OpInsert(sc) ==
    \E c \in Alive(sc.objs) : \E index \in 0..(arr[c].mCount + 1), v \in sc.vals, ok \in BOOLEAN :
        /\ Total < sc.lim
        /\ Done(Insert(Start(<<v>>, NoVal, ok), c, index, Ptr(Ext, 0)),
                Call("Insert", c, "none", index, -1, v), sc)

\* Add(c[j]): the argument is a reference to an element of c
OpAddAlias(sc) ==
    \E c \in Alive(sc.objs) : \E j \in 0..(arr[c].mCount - 1), g \in sc.vals, ok \in BOOLEAN :
        /\ Total < sc.lim
        /\ Done(Add(Start(<< >>, g, ok), c, Ptr(arr[c].mData, j)),
                Call("Add", c, "none", arr[c].mCount, j, Elems(c)[j + 1]), sc)

\* Insert(index, c[j]): the argument is a reference to an element of c
OpInsertAlias(sc) ==
    \E c \in Alive(sc.objs) : \E index \in 0..(arr[c].mCount + 1),
       j \in 0..(arr[c].mCount - 1), g \in sc.vals, ok \in BOOLEAN :
        /\ Total < sc.lim
        /\ Done(Insert(Start(<< >>, g, ok), c, index, Ptr(arr[c].mData, j)),
                Call("Insert", c, "none", index, j, Elems(c)[j + 1]), sc)

\* c.Insert(index, c): the source is the container itself
OpInsertSelf(sc) ==
    \E c \in Alive(sc.objs) : \E index \in 0..(arr[c].mCount + 1), g \in sc.vals, ok \in BOOLEAN :
        /\ Total + arr[c].mCount <= sc.lim
        /\ Done(InsertArray(Start(<< >>, g, ok), c, index, c),
                Call("Insert(array)", c, c, index, -1, Elems(c)), sc)

\* c.Append(c): the source is the container itself
OpAppendSelf(sc) ==
    \E c \in Alive(sc.objs), g \in sc.vals, ok \in BOOLEAN :
        /\ Total + arr[c].mCount <= sc.lim
        /\ Done(AppendArray(Start(<< >>, g, ok), c, c),
                Call("Append(array)", c, c, arr[c].mCount, -1, Elems(c)), sc)

\* Insert(index, ilist) and Insert(index, ptr, count)
OpInsertList(sc) ==
    \E c \in Alive(sc.objs) : \E index \in 0..(arr[c].mCount + 1), l \in Lists(sc.vals),
       g \in sc.vals, ok \in BOOLEAN :
        /\ Total + Len(l) <= sc.lim
        /\ Done(InsertList(Start(l, g, ok), c, index),
                Call("Insert(list)", c, "none", index, -1, l), sc)

\* Insert(index, local) with local a local array of the caller's
OpInsertLocal(sc) ==
    \E c \in Alive(sc.objs) : \E index \in 0..(arr[c].mCount + 1), l \in Lists(sc.vals),
       g \in sc.vals, ok \in BOOLEAN :
        /\ Total + Len(l) <= sc.lim
        /\ Done(EndLocal(InsertArray(StartLocal(l, g, ok), c, index, Local)),
                Call("Insert(array)", c, Local, index, -1, l), sc)

\* Insert(index, std::move(local)) with local a local array of the caller's
OpInsertDrainLocal(sc) ==
    \E c \in Alive(sc.objs) : \E index \in 0..(arr[c].mCount + 1), l \in Lists(sc.vals),
       g \in sc.vals, ok \in BOOLEAN :
        /\ Total + Len(l) <= sc.lim
        /\ Done(EndLocal(InsertDrain(StartLocal(l, g, ok), c, index, Local)),
                Call("Insert(drain)", c, Local, index, -1, l), sc)

\* Insert(index, source) with source another container
OpInsertArray(sc) ==
    \E c \in Alive(sc.objs) : \E index \in 0..(arr[c].mCount + 1), o \in Alive(sc.objs) \ {c},
       g \in sc.vals, ok \in BOOLEAN :
        /\ Total + arr[o].mCount <= sc.lim
        /\ Done(InsertArray(Start(<< >>, g, ok), c, index, o),
                Call("Insert(array)", c, o, index, -1, Elems(o)), sc)

\* Insert(index, std::move(source)) with source another container
OpInsertDrain(sc) ==
    \E c \in Alive(sc.objs) : \E index \in 0..(arr[c].mCount + 1), o \in Alive(sc.objs) \ {c},
       g \in sc.vals, ok \in BOOLEAN :
        /\ Done(InsertDrain(Start(<< >>, g, ok), c, index, o),
                Call("Insert(drain)", c, o, index, -1, Elems(o)), sc)

OpAppendList(sc) ==
    \E c \in Alive(sc.objs), l \in Lists(sc.vals), g \in sc.vals, ok \in BOOLEAN :
        /\ Total + Len(l) <= sc.lim
        /\ Done(AppendList(Start(l, g, ok), c),
                Call("Append(list)", c, "none", arr[c].mCount, -1, l), sc)

OpAppendArray(sc) ==
    \E c \in Alive(sc.objs) : \E o \in Alive(sc.objs) \ {c}, g \in sc.vals, ok \in BOOLEAN :
        /\ Total + arr[o].mCount <= sc.lim
        /\ Done(AppendArray(Start(<< >>, g, ok), c, o),
                Call("Append(array)", c, o, arr[c].mCount, -1, Elems(o)), sc)

OpAppendDrain(sc) ==
    \E c \in Alive(sc.objs) : \E o \in Alive(sc.objs) \ {c}, g \in sc.vals, ok \in BOOLEAN :
        /\ Done(AppendDrain(Start(<< >>, g, ok), c, o),
                Call("Append(drain)", c, o, arr[c].mCount, -1, Elems(o)), sc)

OpClear(sc) ==
    \E c \in Alive(sc.objs) :
        Done(Clear(Start(<< >>, NoVal, TRUE), c),
             Call("Clear", c, "none", 0, -1, 0), sc)

OpRemoveAt(sc) ==
    \E c \in Alive(sc.objs) : \E index \in 0..(arr[c].mCount + 1) :
        Done(RemoveAt(Start(<< >>, NoVal, TRUE), c, index),
             Call("RemoveAt", c, "none", index, -1, 0), sc)

OpRemove(sc) ==
    \E c \in Alive(sc.objs), v \in sc.vals :
        Done(Remove(Start(<< >>, NoVal, TRUE), c, v),
             Call("Remove", c, "none", 0, -1, v), sc)

OpFind(sc) ==
    \E c \in Alive(sc.objs), v \in sc.vals :
        Done([Start(<<v>>, NoVal, TRUE) EXCEPT !.ret = Find(Start(<<v>>, NoVal, TRUE), c, v)],
             Call("Find", c, "none", 0, -1, v), sc)

OpFindLast(sc) ==
    \E c \in Alive(sc.objs), v \in sc.vals :
        Done([Start(<<v>>, NoVal, TRUE) EXCEPT !.ret = FindLast(Start(<<v>>, NoVal, TRUE), c, v)],
             Call("FindLast", c, "none", 0, -1, v), sc)

OpRemoveAll(sc) ==
    \E c \in Alive(sc.objs), P \in SUBSET sc.vals :
        Done(RemoveAll(Start(<< >>, NoVal, TRUE), c, P),
             Call("RemoveAll", c, "none", 0, -1, P), sc)

OpReserve(sc) ==
    \E c \in Alive(sc.objs), newCapacity \in 0..MaxCap, ok \in BOOLEAN :
        Done(Reserve(Start(<< >>, NoVal, ok), c, newCapacity),
             Call("Reserve", c, "none", 0, -1, newCapacity), sc)

OpResize(sc) ==
    \E c \in Alive(sc.objs) : \E newCount \in 0..(sc.lim - Total + arr[c].mCount),
       v \in sc.vals, ok \in BOOLEAN :
        Done(Resize(Start(<< >>, NoVal, ok), c, newCount, v),
             Call("Resize", c, "none", newCount, -1, v), sc)

OpShrink(sc) ==
    \E c \in Alive(sc.objs), ok \in BOOLEAN :
        Done(Shrink(Start(<< >>, NoVal, ok), c),
             Call("Shrink", c, "none", 0, -1, 0), sc)

OpSwap(sc) ==
    \E c \in Alive(sc.objs), o \in Alive(sc.objs) :
        Done(Swap(Start(<< >>, NoVal, TRUE), c, o),
             Call("Swap", c, o, 0, -1, 0), sc)

\* c.Swap(local), a local array of the caller's
OpSwapLocal(sc) ==
    \E c \in Alive(sc.objs), l \in Lists(sc.vals) :
        /\ Total - arr[c].mCount + Len(l) <= sc.lim
        /\ Done(EndLocal(Swap(StartLocal(l, NoVal, TRUE), c, Local)),
                Call("Swap", c, Local, 0, -1, l), sc)

\* one container, every call on record
One == [objs |-> {"a"}, vals |-> Values, lim |-> MaxCount, quiet |-> {}, trace |-> FALSE]

Next ==
    \/ CtorDefault(One) \/ CtorSized(One) \/ CtorList(One) \/ Dtor(One)
    \/ OpAssignCopyLocal(One) \/ OpAssignMoveLocal(One) \/ OpAssignList(One)
    \/ OpSwapLocal(One) \/ OpIndex(One) \/ OpAdd(One) \/ OpInsert(One)
    \/ OpInsertList(One) \/ OpInsertLocal(One) \/ OpInsertDrainLocal(One)
    \/ OpAppendList(One) \/ OpClear(One) \/ OpRemoveAt(One) \/ OpRemove(One)
    \/ OpRemoveAll(One) \/ OpReserve(One) \/ OpResize(One) \/ OpShrink(One)
    \/ Resume

Spec == Init /\ [][Next]_vars

\* Two containers and the operations that create, pass on and release
\* buffers; the calls that involve both containers are on record.
Two ==
    [objs |-> Containers, vals |-> Values, lim |-> MaxCount, trace |-> FALSE,
     quiet |-> {"Array()", "Array(capacity)", "Array(ilist)", "~Array",
                "operator=(ilist)", "Add", "Reserve", "Clear", "Shrink"}]

NextTwo ==
    \/ CtorDefault(Two) \/ CtorSized(Two) \/ CtorList(Two) \/ CtorCopy(Two)
    \/ CtorMove(Two) \/ Dtor(Two)
    \/ OpAssignCopy(Two) \/ OpAssignMove(Two) \/ OpAssignList(Two) \/ OpSwap(Two)
    \/ OpAdd(Two) \/ OpReserve(Two)
    \/ OpInsertArray(Two) \/ OpInsertDrain(Two)
    \/ OpAppendArray(Two) \/ OpAppendDrain(Two)
    \/ OpClear(Two) \/ OpShrink(Two)
    \/ Resume

SpecTwo == Init /\ [][NextTwo]_vars

\* One container of equal elements that grows further: the operations that
\* need capacity, every call on record.
Grow == [objs |-> {"a"}, vals |-> {1}, lim |-> MaxGrow, quiet |-> {}, trace |-> FALSE]

NextGrow ==
    \/ CtorSized(Grow) \/ Dtor(Grow)
    \/ OpAdd(Grow) \/ OpInsert(Grow) \/ OpInsertList(Grow) \/ OpInsertLocal(Grow)
    \/ OpInsertDrainLocal(Grow) \/ OpAppendList(Grow)
    \/ OpReserve(Grow) \/ OpResize(Grow) \/ OpShrink(Grow) \/ OpClear(Grow)
    \/ Resume

SpecGrow == Init /\ [][NextGrow]_vars

\* A container that starts empty and is filled by Add, one element at a time,
\* and read by operator[]; its history is traced.
Fill == [objs |-> {"a"}, vals |-> Values, lim |-> MaxFill, quiet |-> {}, trace |-> TRUE]

NextFill == OpAdd(Fill) \/ OpIndex(Fill) \/ Resume

SpecFill == Init /\ [][NextFill]_vars

\* One container that is built up, cut down and searched.
Search == [objs |-> {"a"}, vals |-> Values, lim |-> MaxCount, quiet |-> {}, trace |-> FALSE]

NextSearch ==
    \/ OpAdd(Search) \/ OpInsert(Search) \/ OpRemoveAt(Search) \/ OpShrink(Search)
    \/ OpFind(Search) \/ OpFindLast(Search)
    \/ Resume

SpecSearch == Init /\ [][NextSearch]_vars

\* One container whose calls take their argument from the container itself;
\* those calls are on record.
Self ==
    [objs |-> {"a"}, vals |-> Values, lim |-> MaxSelf, trace |-> FALSE,
     quiet |-> {"operator=(ilist)", "Reserve", "Clear"}]

NextSelf ==
    \/ OpAssignList(Self) \/ OpReserve(Self) \/ OpClear(Self)
    \/ OpAddAlias(Self) \/ OpInsertAlias(Self)
    \/ OpInsertSelf(Self) \/ OpAppendSelf(Self)
    \/ Resume

SpecSelf == Init /\ [][NextSelf]_vars

\* Two containers over three ordered values that are built and compared; the
\* comparisons are on record.
Cmp ==
    [objs |-> Containers, vals |-> Ordered, lim |-> MaxCmp, trace |-> FALSE,
     quiet |-> {"Array(ilist)", "Add"}]

NextCmp ==
    \/ CtorList(Cmp) \/ OpAdd(Cmp)
    \/ OpCompare(Cmp) \/ OpEqual(Cmp)
    \/ Resume

SpecCmp == Init /\ [][NextCmp]_vars

(* ============================ the claims =============================== *)
Target == last.obj
Before == pre[last.obj]
Now == View(last.obj)
Splice(s, i, t) == SubSeq(s, 1, i) \o t \o SubSeq(s, i + 1, Len(s))
Without(s, i) == SubSeq(s, 1, i) \o SubSeq(s, i + 2, Len(s))
InvalidAccess == {"out_of_bounds", "use_released", "null_deref", "bad_range"}

BulkCopyOps == {"Insert(list)", "Insert(array)", "Append(list)"}

\* C1: a bulk Insert(i, src) of len elements with i in [0, count], whatever
\* len is, returns with count' = count + len and the contents
\* old[0, i) ++ src ++ old[i, count), and touches no slot outside the buffer.
C1_BulkInsert ==
    (last.op \in BulkCopyOps /\ last.idx <= Before.mCount /\ last.outcome # "alloc")
    => /\ last.outcome = "ok"
       /\ Now.mCount = Before.mCount + Len(last.arg)
       /\ Now.elems = Splice(Before.elems, last.idx, last.arg)
       /\ last.err \cap InvalidAccess = {}

\* C2: for i in [0, count], Insert(i, v) returns with count' = count + 1, v at
\* position i, the elements formerly at positions >= i one place up in their
\* order and the elements before i unchanged.
C2_InsertOne ==
    (last.op = "Insert" /\ last.idx <= Before.mCount /\ last.outcome # "alloc")
    => /\ last.outcome = "ok"
       /\ Now.mCount = Before.mCount + 1
       /\ Now.elems[last.idx + 1] = last.arg
       /\ Now.elems = Splice(Before.elems, last.idx, <<last.arg>>)

C2_Witness ==
    /\ last.op = "Insert"
    /\ last.outcome = "ok"
    /\ 0 < last.idx
    /\ last.idx < Before.mCount
    /\ Before.elems[last.idx] # Before.elems[last.idx + 1]

\* C3: for i in [0, count), RemoveAt(i) returns with count' = count - 1, the
\* elements before i unchanged, the elements after i one place down in their
\* order, and the capacity unchanged.
C3_RemoveAt ==
    (last.op = "RemoveAt" /\ last.idx < Before.mCount)
    => /\ last.outcome = "ok"
       /\ Now.mCount = Before.mCount - 1
       /\ Now.elems = Without(Before.elems, last.idx)
       /\ Now.mCapacity = Before.mCapacity

C3_Witness ==
    /\ last.op = "RemoveAt"
    /\ last.outcome = "ok"
    /\ 0 < last.idx
    /\ last.idx + 1 < Before.mCount
    /\ Before.elems[last.idx] # Before.elems[last.idx + 2]

AtOps == {"operator[]", "RemoveAt"}
InsertOps == {"Insert", "Insert(list)", "Insert(array)", "Insert(drain)"}

\* C4: operator[] and RemoveAt throw IndexOutOfRange exactly when
\* index >= count, every Insert overload exactly when index > count (index =
\* count appends); a call that throws it has allocated and released nothing
\* and leaves buffer, count, capacity and elements (and a drained source) as
\* they were.
C4_IndexOutOfRange ==
    /\ last.op \in AtOps =>
          (last.outcome = "range" <=> last.idx >= Before.mCount)
    /\ last.op \in InsertOps =>
          (last.outcome = "range" <=> last.idx > Before.mCount)
    /\ last.outcome = "range" =>
          /\ Now = Before
          /\ last.nalloc = 0
          /\ last.nfree = 0
          /\ last.err = {}
          /\ last.src = Local => last.seen = Len(last.arg)
          /\ last.src \in Containers => View(last.src) = pre[last.src]

\* an out-of-range bulk insert into a full, non-empty container
C4_Witness ==
    /\ last.op = "Insert(drain)"
    /\ last.src = Local
    /\ last.outcome = "range"
    /\ Before.mCount > 0
    /\ Before.mCapacity = Before.mCount
    /\ Len(last.arg) > 0

\* C5: every container has count <= capacity, and holds no buffer exactly when
\* its capacity is 0.
C5_CountCapacity ==
    \A c \in Objects :
        arr[c].alive =>
            /\ arr[c].mCount <= arr[c].mCapacity
            /\ arr[c].mData = nullptr <=> arr[c].mCapacity = 0

\* a Shrink of an emptied container has released its buffer
C5_Witness ==
    /\ last.op = "Shrink"
    /\ last.outcome = "ok"
    /\ Before.mCapacity > 0
    /\ Now.mCapacity = 0
    /\ Now.mData = nullptr

\* C6: after every operation that returns, the slots of a container's buffer
\* that hold a constructed object are exactly [0, count).
C6_LiveSlots ==
    \A c \in Containers :
        (arr[c].alive /\ Running) => LiveSlots(c) = 0..(arr[c].mCount - 1)

Holders(b) == {c \in Objects : arr[c].alive /\ arr[c].mData = b}

\* C7: every allocated buffer is held by exactly one container, no container
\* holds a buffer that is not allocated, and no buffer is released twice.
C7_ExclusiveOwnership ==
    /\ \A b \in BufIds :
          IF heap[b].alloc THEN Cardinality(Holders(b)) = 1 ELSE Holders(b) = {}
    /\ "double_free" \notin last.err

\* a move assignment between two containers that both held a buffer
C7_Witness ==
    /\ last.op = "operator=(move)"
    /\ last.obj # last.src
    /\ pre[last.obj].mData # nullptr
    /\ pre[last.src].mData # nullptr
    /\ last.nfree = 1

MoveOps == {"Array(move)", "operator=(move)"}

\* C8: after b = move(a), by move construction or by move assignment to a
\* distinct b, a has count 0, capacity 0 and no buffer, and b holds a's former
\* buffer, elements and capacity.
C8_Move ==
    (last.op \in MoveOps /\ last.obj # last.src)
    => /\ last.outcome = "ok"
       /\ arr[last.src].mCount = 0
       /\ arr[last.src].mCapacity = 0
       /\ arr[last.src].mData = nullptr
       /\ Now.mData = pre[last.src].mData
       /\ Now.elems = pre[last.src].elems
       /\ Now.mCapacity = pre[last.src].mCapacity

C8_Witness ==
    /\ last.op = "operator=(move)"
    /\ last.obj # last.src
    /\ pre[last.src].elems = <<1, 2>>
    /\ pre[last.obj].mCount > 0
    /\ Now.elems = <<1, 2>>

GrowOps ==
    {"Add", "Insert", "Insert(list)", "Insert(array)", "Insert(drain)",
     "Append(list)", "Resize"}

\* the number of slots the call on record needs
Required ==
    IF last.op = "Resize" THEN last.idx
    ELSE IF last.op \in {"Add", "Insert"} THEN Before.mCount + 1
    ELSE Before.mCount + Len(last.arg)

\* C9: a call that needs required > capacity slots reallocates once, to
\* max(required, capacity = 0 ? 8 : capacity + floor(capacity / 2)); a call
\* that needs no more than capacity does not reallocate.
C9_Growth ==
    (last.op \in GrowOps /\ last.outcome = "ok")
    => IF Required > Before.mCapacity
       THEN /\ last.nalloc = 1
            /\ LET policy == IF Before.mCapacity = 0 THEN 8
                             ELSE Before.mCapacity + (Before.mCapacity \div 2)
               IN Now.mCapacity = IF Required >= policy THEN Required ELSE policy
       ELSE /\ last.nalloc = 0
            /\ Now.mCapacity = Before.mCapacity
            /\ Now.mData = Before.mData

\* a growth in which one and a half times the capacity exceeds the need
C9_Witness ==
    /\ last.op \in GrowOps
    /\ last.outcome = "ok"
    /\ Before.mCapacity > 0
    /\ Required > Before.mCapacity
    /\ Now.mCapacity > Required

\* C10: a call in which the allocation fails releases nothing and leaves
\* buffer, count, capacity and elements (and a local source) as they were.
C10_AllocFailure ==
    (last.outcome = "alloc" /\ last.obj \in Containers /\ pre[last.obj].alive)
    => /\ Now = Before
       /\ last.nfree = 0
       /\ last.err = {}
       /\ last.src = Local => last.seen = Len(last.arg)

\* a failed allocation in an insert into the middle of a full container
C10_Witness ==
    /\ last.op = "Insert(list)"
    /\ last.outcome = "alloc"
    /\ Before.mCount > 1
    /\ Before.mCapacity = Before.mCount
    /\ last.idx = 1

\* C11: a container filled from empty by Add alone has, after every step,
\* count <= capacity; its capacities so far are the shortest run of
\* 0, 8, 12, 18, 27 that ends at a capacity >= count, one reallocation for
\* each change; its elements are the added values in the order of the calls,
\* and operator[] returns them; with 9 elements the run is 0, 8, 12.
C11_FillByAdd ==
    LET progression == <<0, 8, 12, 18, 27>>
        n == arr["a"].mCount
        steps == CHOOSE k \in 1..Len(progression) :
                     /\ progression[k] >= n
                     /\ \A j \in 1..(k - 1) : progression[j] < n
    IN /\ n <= arr["a"].mCapacity
       /\ log.caps = SubSeq(progression, 1, steps)
       /\ arr["a"].mCapacity = log.caps[Len(log.caps)]
       /\ log.reallocs = Len(log.caps) - 1
       /\ Elems("a") = log.adds
       /\ (last.op = "operator[]" /\ last.outcome = "ok") => last.ret = log.adds[last.idx + 1]
       /\ n = 9 => (log.caps = <<0, 8, 12>> /\ log.reallocs = 2)

\* the ninth Add has returned and the last element has been read back
C11_Witness ==
    /\ last.op = "operator[]"
    /\ last.outcome = "ok"
    /\ last.idx = 8
    /\ last.ret = 2
    /\ log.adds = <<1, 2, 1, 2, 1, 2, 1, 2, 2>>
    /\ log.caps = <<0, 8, 12>>

DrainOps == {"Insert(drain)", "Append(drain)"}

\* C12: a drain insert at i in [0, count] from another container returns with
\* the source's former elements at [i, i + len) in their order, the target's
\* own elements around them, and the source empty.
C12_DrainInsert ==
    (/\ last.op \in DrainOps
     /\ last.src \in Containers \ {last.obj}
     /\ last.idx <= Before.mCount
     /\ last.outcome # "alloc")
    => /\ last.outcome = "ok"
       /\ Now.mCount = Before.mCount + pre[last.src].mCount
       /\ Now.elems = Splice(Before.elems, last.idx, pre[last.src].elems)
       /\ arr[last.src].mCount = 0

\* the positions of value v in the sequence s, counted from 0
Places(s, v) == {k \in 0..(Len(s) - 1) : s[k + 1] = v}

\* C13: Find(v) returns the smallest and FindLast(v) the largest index whose
\* element equals v, and INDEX_NONE, which is no index of any container,
\* exactly when no element equals v; neither throws or changes the container;
\* and after an Insert(p, v) of a v that was absent, Find(v) is p.
C13_Find ==
    /\ last.op \in {"Find", "FindLast"} =>
          /\ last.outcome = "ok"
          /\ Now = Before
          /\ last.err = {} /\ last.nalloc = 0 /\ last.nfree = 0
          /\ last.ret = INDEX_NONE <=> Places(Before.elems, last.arg) = {}
          /\ last.ret # INDEX_NONE =>
                /\ last.ret \in Places(Before.elems, last.arg)
                /\ \A k \in Places(Before.elems, last.arg) :
                      IF last.op = "Find" THEN last.ret <= k ELSE last.ret >= k
    /\ \A c \in Containers : arr[c].mCount < INDEX_NONE /\ arr[c].mCapacity <= INDEX_NONE
    /\ (/\ last.op = "Insert" /\ last.outcome = "ok"
        /\ Places(Before.elems, last.arg) = {})
       => Find(Start(<< >>, NoVal, TRUE), last.obj, last.arg) = last.idx

\* FindLast passes over a later, different element and finds two matches
C13_Witness ==
    /\ last.op = "FindLast"
    /\ Before.elems = <<1, 1, 2>>
    /\ last.arg = 1
    /\ last.ret = 1

\* C14: RemoveAll(pred) returns the number of elements that satisfied pred,
\* count' = count - that number, the elements kept are the ones that did not
\* satisfy pred in their order, and capacity and buffer are unchanged; when
\* no element satisfies pred it returns 0 and changes nothing.
C14_RemoveAll ==
    last.op = "RemoveAll" =>
        LET Keep(x) == x \notin last.arg
            hits == {k \in 1..Before.mCount : Before.elems[k] \in last.arg}
        IN /\ last.outcome = "ok"
           /\ last.ret = Cardinality(hits)
           /\ Now.mCount = Before.mCount - last.ret
           /\ Now.elems = SelectSeq(Before.elems, Keep)
           /\ Now.mCapacity = Before.mCapacity
           /\ Now.mData = Before.mData
           /\ last.nalloc = 0 /\ last.nfree = 0
           /\ hits = {} => (last.ret = 0 /\ Now = Before)

\* two matches around an element that is kept
C14_Witness ==
    /\ last.op = "RemoveAll"
    /\ Before.elems = <<1, 2, 1>>
    /\ last.arg = {1}
    /\ last.ret = 2
    /\ Now.elems = <<2>>

\* C15: a Shrink that returns leaves capacity = count, with count and elements
\* as they were: by one reallocation when capacity exceeded a count > 0, by
\* releasing the buffer when count = 0, by nothing when capacity = count; and
\* a second Shrink right after it allocates and releases nothing and changes
\* nothing.
C15_Shrink ==
    (last.op = "Shrink" /\ last.outcome = "ok") =>
        /\ Now.mCapacity = Before.mCount
        /\ Now.mCount = Before.mCount
        /\ Now.elems = Before.elems
        /\ Before.mCapacity > Before.mCount =>
              /\ last.nalloc = (IF Before.mCount > 0 THEN 1 ELSE 0)
              /\ last.nfree = 1
              /\ Before.mCount = 0 => Now.mData = nullptr
        /\ Before.mCapacity = Before.mCount =>
              (Now = Before /\ last.nalloc = 0 /\ last.nfree = 0)
        /\ \A ok \in BOOLEAN :
              LET again == Shrink(Start(<< >>, NoVal, ok), last.obj)
              IN /\ Ok(again)
                 /\ again.arr = arr
                 /\ again.heap = heap
                 /\ again.nalloc = 0
                 /\ again.nfree = 0

\* a Shrink that moved two elements into a smaller buffer
C15_Witness ==
    /\ last.op = "Shrink"
    /\ last.outcome = "ok"
    /\ Before.elems = <<1, 2>>
    /\ Before.mCapacity = 3
    /\ Now.mCapacity = 2
    /\ Now.mData # Before.mData

RemovingOps == {"Clear", "RemoveAt", "Remove", "RemoveAll"}

\* C16: Clear leaves count 0; Clear, RemoveAt, Remove, RemoveAll and a Resize
\* to no more than count leave the capacity and the buffer the container
\* holds as they were, and neither allocate nor release.
C16_KeepCapacity ==
    /\ last.op = "Clear" => (last.outcome = "ok" /\ Now.mCount = 0)
    /\ (\/ last.op \in RemovingOps
        \/ last.op = "Resize" /\ last.idx <= Before.mCount)
       => /\ Now.mCapacity = Before.mCapacity
          /\ Now.mData = Before.mData
          /\ Now.mCount <= Before.mCount
          /\ last.nalloc = 0
          /\ last.nfree = 0

\* a Clear of a container with elements and spare capacity
C16_Witness ==
    /\ last.op = "Clear"
    /\ Before.mCount = 2
    /\ Before.mCapacity = 3
    /\ Now.mCount = 0
    /\ Now.mCapacity = 3

\* the lexicographic order of two sequences: -1, 0 or 1
Lex(s, t) ==
    LET m == IF Len(s) <= Len(t) THEN Len(s) ELSE Len(t)
        diff == {k \in 1..m : s[k] # t[k]}
        d == CHOOSE k \in diff : \A j \in diff : k <= j
    IN IF diff # {} THEN (IF s[d] < t[d] THEN -1 ELSE 1)
       ELSE IF Len(s) < Len(t) THEN -1
       ELSE IF Len(s) > Len(t) THEN 1
       ELSE 0

\* C17: a == b is true exactly when a and b have the same count and the same
\* elements, whatever their capacities; a <=> b is the lexicographic order
\* of the element sequences, a proper prefix first ([1,2] equals [1,2],
\* [1,2] < [1,2,3] < [1,3]); a == b holds exactly when a <=> b reports
\* equivalence, and a <=> b is the reverse of b <=> a.
C17_Compare ==
    /\ last.op = "operator==" =>
          /\ last.outcome = "ok"
          /\ last.ret = 1 <=> (/\ Before.mCount = pre[last.src].mCount
                               /\ Before.elems = pre[last.src].elems)
          /\ last.ret = 0 <=> Before.elems # pre[last.src].elems
          /\ (Before.elems = <<1, 2>> /\ pre[last.src].elems = <<1, 2>>) => last.ret = 1
    /\ last.op = "operator<=>" =>
          /\ last.outcome = "ok"
          /\ last.ret = Lex(Before.elems, pre[last.src].elems)
          /\ (Before.elems = <<1, 2>> /\ pre[last.src].elems = <<1, 2, 3>>) => last.ret = -1
          /\ (Before.elems = <<1, 2, 3>> /\ pre[last.src].elems = <<1, 3>>) => last.ret = -1
          /\ (Before.elems = <<1, 2>> /\ pre[last.src].elems = <<1, 3>>) => last.ret = -1
    /\ last.op \in {"operator==", "operator<=>"} =>
          /\ Now = Before
          /\ View(last.src) = pre[last.src]
          /\ last.err = {}
    /\ \A c \in Alive(Containers), o \in Alive(Containers) :
          LET M == Start(<< >>, NoVal, TRUE)
          IN /\ Compare(M, c, o) \in {-1, 0, 1}
             /\ Equal(M, c, o) <=> Compare(M, c, o) = 0
             /\ Compare(M, c, o) = 0 - Compare(M, o, c)

\* [1,2,3] in a buffer of 8 slots is less than [1,3] in a buffer of 2
C17_Witness ==
    /\ last.op = "operator<=>"
    /\ Before.elems = <<1, 2, 3>>
    /\ pre[last.src].elems = <<1, 3>>
    /\ Before.mCapacity # pre[last.src].mCapacity
    /\ last.ret = -1

\* C18: Add(a[j]) and Insert(i, a[j]) with i in [0, count] and j in
\* [0, count) return with the value a[j] had before the call at position i
\* (count for Add) and the other elements around it, and read no slot of a
\* released buffer.
C18_AliasInsert ==
    (/\ last.op \in {"Add", "Insert"}
     /\ last.ref >= 0
     /\ last.idx <= Before.mCount
     /\ last.outcome # "alloc")
    => /\ last.outcome = "ok"
       /\ Now.elems = Splice(Before.elems, last.idx, <<Before.elems[last.ref + 1]>>)
       /\ last.err \cap InvalidAccess = {}

\* C19: a.Insert(i, a) with i in [0, count] and a.Append(a) return with
\* count' = 2 * count and a copy of a's elements before the call at
\* [i, i + count), the original elements around it, and read no slot that was
\* released or shifted.
C19_SelfInsert ==
    (/\ last.op \in {"Insert(array)", "Append(array)"}
     /\ last.src = last.obj
     /\ last.idx <= Before.mCount
     /\ last.outcome # "alloc")
    => /\ last.outcome = "ok"
       /\ Now.mCount = 2 * Before.mCount
       /\ Now.elems = Splice(Before.elems, last.idx, Before.elems)
       /\ last.err \cap InvalidAccess = {}

LifetimeErrors ==
    {"construct_live", "assign_dead", "read_dead", "destroy_dead", "release_live"}

\* C20: no call constructs an object in a slot that holds a live object,
\* assigns into, moves from or destroys a slot that holds none, or releases a
\* buffer in which an object was constructed and not destroyed.
C20_Lifetimes == last.err \cap LifetimeErrors = {}
====
